---- MODULE Spec2Model ----
(***************************************************************************)
(* Client-side data synchronization layer of the foosball challenge app:   *)
(* the application state store (appReducer), the error classifier, the     *)
(* domain gateways and the orchestration in App / ChallengesList /         *)
(* ChallengeForm / PlayerProfile.                                          *)
(***************************************************************************)
EXTENDS Integers, Sequences, FiniteSets, TLC

VARIABLES
    state,              \* AppState held by AppProvider (useReducer)
    initPc,             \* position of initializeApp: "idle", "waiting", "done"
    placesData,         \* settled result of PlacesService.getActivePlaces()
    challengesData,     \* settled result of ChallengesService.getOpenChallenges()
    playerData,         \* settled result of PlayersService.getCurrentPlayer()
    joiningChallenges,  \* ChallengesList: ids with a join in flight (busy markers)
    joinError,          \* ChallengesList: local join error
    listJoinCalls,      \* join requests in flight issued by ChallengesList, per id
    appJoinCalls,       \* join requests in flight issued by App.handleJoinChallenge, per id
    appRefreshCalls,    \* refresh reads in flight in App.handleJoinChallenge, per joined id
    profileCalls,       \* PUT /players/me in flight issued by PlayerProfile.handleSubmit
    appUpdateCalls,     \* PUT /players/me in flight issued by App.handleUpdateProfile
    createNetCalls,     \* number of POST /challenges requests sent so far
    classified,         \* last failure handed to the error classifier with its result
    playerResponse,     \* what fetch() answered to the startup profile read
    fetchCalls,         \* requests sent by gateway methods called on their own, per method
    last                \* the last operation that ran, with its inputs

vars == <<state, initPc, placesData, challengesData, playerData,
          joiningChallenges, joinError, listJoinCalls, appJoinCalls,
          appRefreshCalls, profileCalls, appUpdateCalls, createNetCalls,
          classified, playerResponse, fetchCalls, last>>

(***************************************************************************)
(* Bounds of the model                                                     *)
(***************************************************************************)
MaxInFlight == 2        \* outstanding requests of one kind per challenge id
MaxStatus == 620        \* largest status handed to the classifier
MaxChallenges == 2      \* length of the challenge collection in the store transitions
MaxPlayers == 2         \* participants held when record-join is dispatched on the store
MaxGatewayCalls == 2    \* requests sent by the gateway methods called on their own

Null == [null |-> TRUE]

(***************************************************************************)
(* Strings: toUpperCase / toLowerCase on the values that occur             *)
(***************************************************************************)
toUpperCase(s) ==
    CASE s \in {"Beginner", "BEGINNER", "beginner"} -> "BEGINNER"
      [] s \in {"Intermediate", "INTERMEDIATE", "intermediate"} -> "INTERMEDIATE"
      [] s \in {"Expert", "EXPERT", "expert"} -> "EXPERT"
      [] s \in {"Novice", "NOVICE", "novice"} -> "NOVICE"
      [] s \in {"Morning", "MORNING", "morning"} -> "MORNING"
      [] s \in {"Afternoon", "AFTERNOON", "afternoon"} -> "AFTERNOON"
      [] s \in {"Evening", "EVENING", "evening"} -> "EVENING"
      [] s \in {"Night", "NIGHT", "night"} -> "NIGHT"
      [] OTHER -> s

toLowerCase(s) ==
    CASE s \in {"Open", "OPEN", "open"} -> "open"
      [] s \in {"Closed", "CLOSED", "closed"} -> "closed"
      [] s \in {"Active", "ACTIVE", "active"} -> "active"
      [] s \in {"Completed", "COMPLETED", "completed"} -> "completed"
      [] s \in {"Terminated", "TERMINATED", "terminated"} -> "terminated"
      [] OTHER -> s

(***************************************************************************)
(* Application state store: context/AppContext.tsx                         *)
(***************************************************************************)
Sections == {"home", "profile", "places", "challenges"}

initialState ==
    [currentPlayer |-> Null,
     places |-> << >>,
     challenges |-> << >>,
     loading |-> FALSE,
     error |-> Null,
     navigation |-> [currentSection |-> "home", previousSection |-> "undefined"]]

SET_PLACES(s, payload) ==
    [s EXCEPT !.places = payload, !.loading = FALSE, !.error = Null]

\* a collection already held is kept, the payload only fills an empty one
SET_CHALLENGES_KeepsFirst(s, payload) ==
    [s EXCEPT !.challenges = IF s.challenges = << >> THEN payload ELSE s.challenges,
              !.loading = FALSE, !.error = Null]

SET_CHALLENGES(s, payload) ==
    [s EXCEPT !.challenges = payload, !.loading = FALSE, !.error = Null]

SET_CURRENT_PLAYER(s, payload) ==
    [s EXCEPT !.currentPlayer = payload, !.loading = FALSE, !.error = Null]

\* the new challenge put in front of the list
ADD_CHALLENGE_Prepends(s, payload) ==
    [s EXCEPT !.challenges = <<payload>> \o s.challenges,
              !.loading = FALSE, !.error = Null]

ADD_CHALLENGE_KeepsBusy(s, payload) ==
    [s EXCEPT !.challenges = Append(s.challenges, payload)]

ADD_CHALLENGE(s, payload) ==
    [s EXCEPT !.challenges = Append(s.challenges, payload),
              !.loading = FALSE, !.error = Null]

\* membership treated as a set: a player already in the list is not appended
JOIN_CHALLENGE_Dedup(s, payload) ==
    [s EXCEPT !.challenges =
                  [i \in DOMAIN s.challenges |->
                      IF /\ s.challenges[i].id = payload.challengeId
                         /\ \A k \in DOMAIN s.challenges[i].players :
                               s.challenges[i].players[k].id # payload.player.id
                      THEN [s.challenges[i] EXCEPT
                               !.players = Append(s.challenges[i].players, payload.player)]
                      ELSE s.challenges[i]],
              !.loading = FALSE, !.error = Null]

\* the id test dropped: the player is appended to every challenge
JOIN_CHALLENGE_NoIdTest(s, payload) ==
    [s EXCEPT !.challenges =
                  [i \in DOMAIN s.challenges |->
                      [s.challenges[i] EXCEPT
                          !.players = Append(s.challenges[i].players, payload.player)]],
              !.loading = FALSE, !.error = Null]

JOIN_CHALLENGE(s, payload) ==
    [s EXCEPT !.challenges =
                  [i \in DOMAIN s.challenges |->
                      IF s.challenges[i].id = payload.challengeId
                      THEN [s.challenges[i] EXCEPT
                               !.players = Append(s.challenges[i].players, payload.player)]
                      ELSE s.challenges[i]],
              !.loading = FALSE, !.error = Null]

UPDATE_PLAYER(s, payload) ==
    [s EXCEPT !.currentPlayer = payload, !.loading = FALSE, !.error = Null]

SET_LOADING(s, payload) ==
    [s EXCEPT !.loading = payload]

SET_ERROR(s, payload) ==
    [s EXCEPT !.error = payload, !.loading = FALSE]

\* navigation written like the data transitions: it resets the error as well
SET_NAVIGATION_ClearsError(s, payload) ==
    [s EXCEPT !.navigation = payload, !.error = Null]

SET_NAVIGATION(s, payload) ==
    [s EXCEPT !.navigation = payload]

appReducer(s, action) ==
    CASE action.type = "SET_PLACES" -> SET_PLACES(s, action.payload)
      [] action.type = "SET_CHALLENGES" -> SET_CHALLENGES(s, action.payload)
      [] action.type = "SET_CURRENT_PLAYER" -> SET_CURRENT_PLAYER(s, action.payload)
      [] action.type = "ADD_CHALLENGE" -> ADD_CHALLENGE(s, action.payload)
      [] action.type = "JOIN_CHALLENGE" -> JOIN_CHALLENGE(s, action.payload)
      [] action.type = "UPDATE_PLAYER" -> UPDATE_PLAYER(s, action.payload)
      [] action.type = "SET_LOADING" -> SET_LOADING(s, action.payload)
      [] action.type = "SET_ERROR" -> SET_ERROR(s, action.payload)
      [] action.type = "SET_NAVIGATION" -> SET_NAVIGATION(s, action.payload)
      [] OTHER -> s

\* the hooks: each dispatches one action
setPlaces(s, places) == appReducer(s, [type |-> "SET_PLACES", payload |-> places])
setChallenges(s, challenges) == appReducer(s, [type |-> "SET_CHALLENGES", payload |-> challenges])
addChallenge(s, challenge) == appReducer(s, [type |-> "ADD_CHALLENGE", payload |-> challenge])
joinChallenge(s, challengeId, player) ==
    appReducer(s, [type |-> "JOIN_CHALLENGE",
                   payload |-> [challengeId |-> challengeId, player |-> player]])
setCurrentPlayer(s, player) == appReducer(s, [type |-> "SET_CURRENT_PLAYER", payload |-> player])
updatePlayer(s, player) == appReducer(s, [type |-> "UPDATE_PLAYER", payload |-> player])
setLoading(s, loading) == appReducer(s, [type |-> "SET_LOADING", payload |-> loading])
setError(s, error) == appReducer(s, [type |-> "SET_ERROR", payload |-> error])
clearError(s) == appReducer(s, [type |-> "SET_ERROR", payload |-> Null])

\* the previous section carried over instead of taken from the current one
setCurrentSection_KeepsPrevious(s, section) ==
    appReducer(s, [type |-> "SET_NAVIGATION",
                   payload |-> [currentSection |-> section,
                                previousSection |-> s.navigation.previousSection]])

setCurrentSection(s, section) ==
    appReducer(s, [type |-> "SET_NAVIGATION",
                   payload |-> [currentSection |-> section,
                                previousSection |-> s.navigation.currentSection]])

\* going back records the section left as the previous one
goBack_Swaps(s) ==
    IF s.navigation.previousSection # "undefined"
    THEN appReducer(s, [type |-> "SET_NAVIGATION",
                        payload |-> [currentSection |-> s.navigation.previousSection,
                                     previousSection |-> s.navigation.currentSection]])
    ELSE s

goBack(s) ==
    IF s.navigation.previousSection # "undefined"
    THEN appReducer(s, [type |-> "SET_NAVIGATION",
                        payload |-> [currentSection |-> s.navigation.previousSection,
                                     previousSection |-> "undefined"]])
    ELSE s

(***************************************************************************)
(* Error classifier and request layer: services/api.ts                     *)
(***************************************************************************)
\* a thrown value: an ApiServiceError (status, message), a plain Error
\* (message) or a value that is not an Error
ApiServiceError(status, message) ==
    [kind |-> "ApiServiceError", status |-> status, message |-> message]

PlainError(message) == [kind |-> "Error", message |-> message]

NotAnError == [kind |-> "other"]

handleError(error) ==
    IF error.kind = "ApiServiceError" /\ error.status = 0
    THEN [type |-> "network",
          message |-> "Network connection failed. Please check your internet connection.",
          retryable |-> TRUE]
    ELSE IF error.kind = "ApiServiceError" /\ error.status >= 400 /\ error.status < 500
    THEN [type |-> "validation", message |-> error.message, retryable |-> FALSE]
    ELSE IF error.kind = "ApiServiceError" /\ error.status >= 500
    THEN [type |-> "server",
          message |-> "Server error occurred. Please try again later.",
          retryable |-> TRUE]
    ELSE [type |-> "unknown",
          message |-> "An unexpected error occurred.",
          retryable |-> TRUE]

\* errorData.message || `HTTP ${response.status}: ${response.statusText}`,
\* where errorData is {} when the body of the response is not JSON
httpErrorMessage(resp) ==
    IF resp.parse /\ "message" \in DOMAIN resp.body
    THEN resp.body.message
    ELSE <<"HTTP ", resp.status, ": ", resp.statusText>>

\* what fetch() produced for one request:
\*   net = "unreachable": the transport call failed with that message
\*   net = "http": a response with a non-2xx status and an error body
\*   net = "ok": a 2xx response
\* parse says whether the body of a response is JSON
request(resp) ==
    IF resp.net = "unreachable"
    THEN [ok |-> FALSE, error |-> ApiServiceError(0, resp.message)]
    ELSE IF resp.net = "http"
    THEN [ok |-> FALSE, error |-> ApiServiceError(resp.status, httpErrorMessage(resp))]
    ELSE IF ~resp.parse
    THEN [ok |-> FALSE, error |-> ApiServiceError(0, "Unexpected token")]
    ELSE [ok |-> TRUE, data |-> resp.body]

validateResponse(data, valid) ==
    IF ~valid
    THEN [ok |-> FALSE, error |-> ApiServiceError(422, "Invalid response format from server")]
    ELSE [ok |-> TRUE, data |-> data]

\* Promise.allSettled entries
fulfilled(value) == [status |-> "fulfilled", value |-> value]
rejected(reason) == [status |-> "rejected", reason |-> reason]
pending == [status |-> "pending"]

(***************************************************************************)
(* Wire payloads the server can answer with                                *)
(***************************************************************************)
PlaceA == [id |-> "p1", name |-> "Bar", coordinates |-> [lat |-> 1, long |-> 2], status |-> "1"]
PlaceB == [id |-> "p2", name |-> "Pub", coordinates |-> [lat |-> 3, long |-> 4], status |-> "0"]

Me == [id |-> "player2", name |-> "Ann", expertise |-> "INTERMEDIATE", points |-> 150]
Other == [id |-> "player1", name |-> "Bob", expertise |-> "Expert", points |-> 10]

Ch1 == [id |-> "c1", name |-> "Cup", place |-> PlaceA, date |-> "2024-01-15",
        time |-> "MORNING", status |-> "OPEN", owner |-> Other, players |-> << >>]
Ch1Joined == [Ch1 EXCEPT !.players = <<Me>>]
Ch2 == [id |-> "c2", name |-> "League", place |-> PlaceA, date |-> "2024-01-16",
        time |-> "NIGHT", status |-> "OPEN", owner |-> Other, players |-> << >>]
Ch3 == [id |-> "c3", name |-> "Old", place |-> PlaceA, date |-> "2024-01-10",
        time |-> "EVENING", status |-> "CLOSED", owner |-> Other, players |-> << >>]

Malformed == [message |-> "unexpected"]

PlacesBodies ==
    {[places |-> << >>], [places |-> <<PlaceA, PlaceB>>], [places |-> <<PlaceA>>], Malformed}

ChallengesBodies ==
    {[challenges |-> << >>], [challenges |-> <<Ch1, Ch2>>], [challenges |-> <<Ch1Joined, Ch2>>],
     [challenges |-> <<Ch1, Ch3>>], [challenges |-> <<Malformed>>], Malformed}

PlayerBodies == {Me, [Me EXCEPT !.expertise = "Expert"], Malformed}

ChallengeBodies == {Ch1Joined, Malformed}

Failures ==
    {[net |-> "unreachable", message |-> "Network error occurred"],
     [net |-> "http", status |-> 400, statusText |-> "Bad Request", parse |-> TRUE,
      body |-> [message |-> "Player already joined this challenge"]],
     [net |-> "http", status |-> 500, statusText |-> "Internal Server Error", parse |-> TRUE,
      body |-> [message |-> "Server error"]]}

Responses(bodies) ==
    Failures \cup {[net |-> "ok", status |-> 200, parse |-> TRUE, body |-> b] : b \in bodies}

ChallengeIds == {"c1", "c2"}

(***************************************************************************)
(* Response validators and field normalizers                               *)
(***************************************************************************)
isPlace(data) ==
    /\ {"id", "name", "coordinates", "status"} \subseteq DOMAIN data
    /\ {"lat", "long"} \subseteq DOMAIN data.coordinates

isPlaces(data) ==
    /\ "places" \in DOMAIN data
    /\ (Len(data.places) > 0 => isPlace(data.places[1]))

isPlayer(data) ==
    /\ {"id", "name", "expertise", "points"} \subseteq DOMAIN data
    /\ \/ data.expertise \in {"Beginner", "Intermediate", "Expert"}
       \/ data.expertise \in {"BEGINNER", "INTERMEDIATE", "EXPERT"}

isChallenge(data) ==
    /\ {"id", "name", "place", "date", "time", "status", "owner", "players"} \subseteq DOMAIN data
    /\ isPlace(data.place)
    /\ data.time \in {"MORNING", "AFTERNOON", "EVENING", "NIGHT"}
    /\ data.status \in {"OPEN", "CLOSED", "ACTIVE", "COMPLETED", "TERMINATED"}
    /\ isPlayer(data.owner)
    /\ \A i \in DOMAIN data.players : isPlayer(data.players[i])

isChallengeArray(data) == \A i \in DOMAIN data : isChallenge(data[i])

\* the switch applied to the value as received, without toUpperCase
normalizeExpertise_CaseSensitive(expertise) ==
    CASE expertise = "BEGINNER" -> "Beginner"
      [] expertise = "INTERMEDIATE" -> "Intermediate"
      [] expertise = "EXPERT" -> "Expert"
      [] OTHER -> "Beginner"

normalizeExpertise(expertise) ==
    CASE toUpperCase(expertise) = "BEGINNER" -> "Beginner"
      [] toUpperCase(expertise) = "INTERMEDIATE" -> "Intermediate"
      [] toUpperCase(expertise) = "EXPERT" -> "Expert"
      [] OTHER -> "Beginner"

normalizeTimeSlot(time) ==
    CASE toUpperCase(time) = "MORNING" -> "MORNING"
      [] toUpperCase(time) = "AFTERNOON" -> "AFTERNOON"
      [] toUpperCase(time) = "EVENING" -> "EVENING"
      [] OTHER -> "MORNING"

normalizePlayer(player) ==
    [player EXCEPT !.expertise = normalizeExpertise(player.expertise)]

normalizeChallenge(challenge) ==
    [challenge EXCEPT !.time = normalizeTimeSlot(challenge.time),
                      !.owner = normalizePlayer(challenge.owner),
                      !.players = [i \in DOMAIN challenge.players |->
                                      normalizePlayer(challenge.players[i])]]

(***************************************************************************)
(* Domain gateways, as functions of what the server answers                *)
(***************************************************************************)
IsActivePlace(place) == place.status = "1"

IsOpenChallenge(challenge) == toLowerCase(challenge.status) = "open"

getPlaces(resp) ==
    LET r == request(resp) IN
    IF ~r.ok THEN r
    ELSE LET v == validateResponse(r.data, isPlaces(r.data)) IN
         IF ~v.ok THEN v ELSE [ok |-> TRUE, data |-> v.data.places]

getActivePlaces(resp) ==
    LET r == getPlaces(resp) IN
    IF ~r.ok THEN r ELSE [ok |-> TRUE, data |-> SelectSeq(r.data, IsActivePlace)]

getChallenges(resp) ==
    LET r == request(resp) IN
    IF ~r.ok THEN r
    ELSE validateResponse(IF "challenges" \in DOMAIN r.data THEN r.data.challenges ELSE Null,
                          "challenges" \in DOMAIN r.data /\ isChallengeArray(r.data.challenges))

getOpenChallenges(resp) ==
    LET r == getChallenges(resp) IN
    IF ~r.ok THEN r ELSE [ok |-> TRUE, data |-> SelectSeq(r.data, IsOpenChallenge)]

DemoPlayer == [id |-> "player2", name |-> "Demo Player", expertise |-> "Intermediate", points |-> 150]

getCurrentPlayer(resp) ==
    LET r == request(resp)
        v == IF r.ok THEN validateResponse(r.data, isPlayer(r.data)) ELSE r
    IN IF v.ok THEN [ok |-> TRUE, data |-> normalizePlayer(v.data)]
       ELSE IF v.error.kind = "ApiServiceError" /\ v.error.status = 0
       THEN [ok |-> TRUE, data |-> DemoPlayer]
       ELSE v

\* ChallengesService.joinChallenge after its input validation passed
joinChallengeRequest(resp) ==
    LET r == request(resp)
        v == IF r.ok THEN validateResponse(r.data, isChallenge(r.data)) ELSE r
    IN IF v.ok THEN [ok |-> TRUE, data |-> normalizeChallenge(v.data)] ELSE v

settled(r) == IF r.ok THEN fulfilled(r.data) ELSE rejected(r.error)

(***************************************************************************)
(* App.initializeApp                                                       *)
(***************************************************************************)
\* the synchronous part up to the await: setLoading(true); clearError()
initializeAppStart(s) == clearError(setLoading(s, TRUE))

\* Promise.all instead of Promise.allSettled: one rejection voids all three
initializeAppFailFast(s, placesD, challengesD, playerD) ==
    IF "rejected" \in {placesD.status, challengesD.status, playerD.status}
    THEN setLoading(setChallenges(setPlaces(s, << >>), << >>), FALSE)
    ELSE setLoading(setCurrentPlayer(setChallenges(setPlaces(s, placesD.value),
                                                   challengesD.value),
                                     playerD.value), FALSE)

\* the continuation after the await, given the three settled results
initializeAppCommit(s, placesD, challengesD, playerD) ==
    LET s1 == IF placesD.status = "fulfilled"
              THEN setPlaces(s, placesD.value) ELSE setPlaces(s, << >>)
        s2 == IF challengesD.status = "fulfilled"
              THEN setChallenges(s1, challengesD.value) ELSE setChallenges(s1, << >>)
        s3 == IF playerD.status = "fulfilled"
              THEN setCurrentPlayer(s2, playerD.value) ELSE s2
    IN setLoading(s3, FALSE)

InitializeApp ==
    /\ initPc = "idle"
    /\ state' = initializeAppStart(state)
    /\ initPc' = "waiting"
    /\ last' = [op |-> "InitializeApp"]
    /\ UNCHANGED <<placesData, challengesData, playerData, joiningChallenges, joinError,
                   listJoinCalls, appJoinCalls, appRefreshCalls, profileCalls,
                   appUpdateCalls, createNetCalls, classified, playerResponse, fetchCalls>>

\* the locals of initializeApp no longer exist once it has returned
released == [status |-> "released"]

\* one of the three reads settles; the await resumes when none is pending
InitSettled(op, placesD, challengesD, playerD, playerResp) ==
    /\ IF "pending" \in {placesD.status, challengesD.status, playerD.status}
       THEN /\ placesData' = placesD
            /\ challengesData' = challengesD
            /\ playerData' = playerD
            /\ playerResponse' = playerResp
            /\ last' = [op |-> op, done |-> FALSE]
            /\ UNCHANGED <<state, initPc>>
       ELSE /\ state' = initializeAppCommit(state, placesD, challengesD, playerD)
            /\ initPc' = "done"
            /\ placesData' = released
            /\ challengesData' = released
            /\ playerData' = released
            /\ playerResponse' = released
            /\ last' = [op |-> op, done |-> TRUE, placesData |-> placesD,
                        challengesData |-> challengesD, playerData |-> playerD,
                        playerResponse |-> playerResp]
    /\ UNCHANGED <<joiningChallenges, joinError, listJoinCalls, appJoinCalls,
                   appRefreshCalls, profileCalls, appUpdateCalls, createNetCalls,
                   classified, fetchCalls>>

PlacesSettle ==
    /\ initPc = "waiting" /\ placesData = pending
    /\ \E resp \in Responses(PlacesBodies) :
          InitSettled("PlacesSettle", settled(getActivePlaces(resp)), challengesData,
                      playerData, playerResponse)

ChallengesSettle ==
    /\ initPc = "waiting" /\ challengesData = pending
    /\ \E resp \in Responses(ChallengesBodies) :
          InitSettled("ChallengesSettle", placesData, settled(getOpenChallenges(resp)),
                      playerData, playerResponse)

PlayerSettle ==
    /\ initPc = "waiting" /\ playerData = pending
    /\ \E resp \in Responses(PlayerBodies) :
          InitSettled("PlayerSettle", placesData, challengesData,
                      settled(getCurrentPlayer(resp)), resp)

(***************************************************************************)
(* Joining: ChallengesList.handleJoinChallenge and App.handleJoinChallenge *)
(***************************************************************************)
\* String.prototype.includes on the messages that occur
includes(message, needle) ==
    \/ needle = "already joined" /\ message = "Player already joined this challenge"
    \/ needle = "Network error" /\ message = "Network error occurred"
    \/ needle = "required" /\ message \in {"Challenge name is required and must be a string",
                                          "Place ID is required and must be a string",
                                          "Date is required and must be a string",
                                          "Time is required and must be MORNING, AFTERNOON, or EVENING",
                                          "Owner ID is required and must be a string"}

instanceofError(error) == error.kind \in {"ApiServiceError", "Error"}

isPlayerInChallenge(challenge, currentPlayer) ==
    IF currentPlayer = Null THEN FALSE
    ELSE \/ \E i \in DOMAIN challenge.players : challenge.players[i].id = currentPlayer.id
         \/ challenge.owner.id = currentPlayer.id

\* the card of challenge id shows an enabled or disabled "Join Challenge" button
JoinButtonShown(id) ==
    /\ state.currentPlayer # Null
    /\ \E i \in DOMAIN state.challenges :
          /\ state.challenges[i].id = id
          /\ ~isPlayerInChallenge(state.challenges[i], state.currentPlayer)

\* ChallengesList catch block
listJoinError(error) ==
    IF instanceofError(error)
    THEN IF includes(error.message, "already joined")
         THEN [type |-> "validation", message |-> "You have already joined this challenge",
               retryable |-> FALSE]
         ELSE IF includes(error.message, "Network error")
         THEN [type |-> "network",
               message |-> "Network error. Please check your connection and try again.",
               retryable |-> TRUE]
         ELSE [type |-> "server", message |-> "Failed to join challenge. Please try again.",
               retryable |-> TRUE]
    ELSE [type |-> "unknown", message |-> "An unexpected error occurred. Please try again.",
          retryable |-> TRUE]

errorMessage(err) == IF instanceofError(err) THEN err.message ELSE "Unknown error occurred"

\* App.handleJoinChallenge catch block with the collections emptied as well
handleJoinChallengeCatchResets(s, err) ==
    setError(setChallenges(s, << >>),
             [type |-> "server",
              message |-> <<"Failed to join challenge: ", errorMessage(err)>>,
              retryable |-> TRUE])

\* App.handleJoinChallenge catch block
handleJoinChallengeCatch(s, err) ==
    setError(s, [type |-> "server",
                 message |-> <<"Failed to join challenge: ", errorMessage(err)>>,
                 retryable |-> TRUE])

\* local patch of the joined challenge instead of the refreshed list
handleJoinChallengePatch(s, id, updatedChallenges) ==
    joinChallenge(s, id, s.currentPlayer)

\* App.handleJoinChallenge after the refresh read of the join of id succeeded
handleJoinChallengeRefreshed(s, id, updatedChallenges) ==
    setChallenges(s, updatedChallenges)

\* the finally block missing: the marker stays
deleteJoining_Keeps(prev, challengeId) == prev

\* the updater of the finally block of ChallengesList.handleJoinChallenge
deleteJoining(prev, challengeId) == prev \ {challengeId}

Outstanding ==
    LET ids == ChallengeIds
        Sum[S \in SUBSET ids] ==
            IF S = {} THEN 0
            ELSE LET x == CHOOSE y \in S : TRUE
                 IN listJoinCalls[x] + appJoinCalls[x] + appRefreshCalls[x] + Sum[S \ {x}]
    IN Sum[ids] + profileCalls + appUpdateCalls

joinFrame == <<initPc, placesData, challengesData, playerData, playerResponse,
               profileCalls, appUpdateCalls, createNetCalls, classified, fetchCalls>>

\* a click on "Join Challenge" of the card of challenge id
ListJoinClick(id) ==
    /\ JoinButtonShown(id)
    /\ id \notin joiningChallenges
    /\ Outstanding < MaxInFlight
    /\ joiningChallenges' = joiningChallenges \cup {id}
    /\ joinError' = Null
    /\ listJoinCalls' = [listJoinCalls EXCEPT ![id] = @ + 1]
    /\ last' = [op |-> "ListJoinClick", id |-> id]
    /\ UNCHANGED <<state, appJoinCalls, appRefreshCalls>>
    /\ UNCHANGED joinFrame

\* handleJoinChallenge(id) called while the marker of id is set: it returns
ListJoinIgnored(id) ==
    /\ JoinButtonShown(id)
    /\ id \in joiningChallenges
    /\ last' = [op |-> "ListJoinIgnored", id |-> id]
    /\ UNCHANGED <<state, joiningChallenges, joinError, listJoinCalls, appJoinCalls,
                   appRefreshCalls>>
    /\ UNCHANGED joinFrame

\* the join request of ChallengesList settles; on success onJoinChallenge(id),
\* which is App.handleJoinChallenge, runs up to its first await
ListJoinSettle(id) ==
    /\ listJoinCalls[id] > 0
    /\ \E resp \in Responses(ChallengeBodies) :
          LET r == joinChallengeRequest(resp) IN
          /\ listJoinCalls' = [listJoinCalls EXCEPT ![id] = @ - 1]
          /\ joiningChallenges' = deleteJoining(joiningChallenges, id)
          /\ IF r.ok
             THEN /\ IF state.currentPlayer = Null
                     THEN UNCHANGED <<state, appJoinCalls>>
                     ELSE /\ state' = setLoading(state, TRUE)
                          /\ appJoinCalls' = [appJoinCalls EXCEPT ![id] = @ + 1]
                  /\ UNCHANGED joinError
                  /\ last' = [op |-> "ListJoinSettle", id |-> id, ok |-> TRUE]
             ELSE /\ joinError' = listJoinError(r.error)
                  /\ UNCHANGED <<state, appJoinCalls>>
                  /\ last' = [op |-> "ListJoinSettle", id |-> id, ok |-> FALSE,
                              error |-> r.error]
    /\ UNCHANGED appRefreshCalls
    /\ UNCHANGED joinFrame

\* the join request of App.handleJoinChallenge settles
AppJoinSettle(id) ==
    /\ appJoinCalls[id] > 0
    /\ \E resp \in Responses(ChallengeBodies) :
          LET r == joinChallengeRequest(resp) IN
          /\ appJoinCalls' = [appJoinCalls EXCEPT ![id] = @ - 1]
          /\ IF r.ok
             THEN /\ appRefreshCalls' = [appRefreshCalls EXCEPT ![id] = @ + 1]
                  /\ UNCHANGED state
                  /\ last' = [op |-> "AppJoinSettle", id |-> id, ok |-> TRUE]
             ELSE /\ state' = handleJoinChallengeCatch(state, r.error)
                  /\ UNCHANGED appRefreshCalls
                  /\ last' = [op |-> "AppJoinSettle", id |-> id, ok |-> FALSE,
                              error |-> r.error]
    /\ UNCHANGED <<joiningChallenges, joinError, listJoinCalls>>
    /\ UNCHANGED joinFrame

\* the refresh read that follows the join of id in App.handleJoinChallenge settles
AppRefreshSettle(id) ==
    /\ appRefreshCalls[id] > 0
    /\ \E resp \in Responses(ChallengesBodies) :
          LET r == getOpenChallenges(resp) IN
          /\ appRefreshCalls' = [appRefreshCalls EXCEPT ![id] = @ - 1]
          /\ IF r.ok
             THEN /\ state' = handleJoinChallengeRefreshed(state, id, r.data)
                  /\ last' = [op |-> "AppRefreshSettle", id |-> id, ok |-> TRUE,
                              value |-> r.data]
             ELSE /\ state' = handleJoinChallengeCatch(state, r.error)
                  /\ last' = [op |-> "AppRefreshSettle", id |-> id, ok |-> FALSE,
                              error |-> r.error]
    /\ UNCHANGED <<joiningChallenges, joinError, listJoinCalls, appJoinCalls>>
    /\ UNCHANGED joinFrame

(***************************************************************************)
(* Profile update: PlayerProfile.handleSubmit and App.handleUpdateProfile  *)
(***************************************************************************)
\* String.prototype.trim().length on the names that occur
trimLength(name) ==
    CASE name = "" -> 0
      [] name = "   " -> 0
      [] name = "Ann" -> 3
      [] name = "Zed" -> 3
      [] name = "Cup" -> 3
      [] name = "Demo Player" -> 11
      [] OTHER -> 5

validatePlayerProfile(data) ==
    {f \in {"name", "expertise"} :
        \/ f = "name" /\ (trimLength(data.name) < 2 \/ trimLength(data.name) > 30)
        \/ f = "expertise" /\ data.expertise \notin {"Novice", "Intermediate", "Expert"}}

\* typeof v === 'number', for the numbers that occur
NumberStrings == {ToString(n) : n \in -20..200}

typeofNumber(v) == ToString(v) \in NumberStrings

\* the name validated whether supplied or not
updatePlayerValidate_NameRequired(updates) ==
    IF "name" \notin DOMAIN updates \/ trimLength(updates.name) = 0
    THEN PlainError("Name must be a non-empty string")
    ELSE IF "expertise" \in DOMAIN updates
            /\ updates.expertise \notin {"Beginner", "Intermediate", "Expert"}
    THEN PlainError("Expertise must be Beginner, Intermediate, or Expert")
    ELSE IF "points" \in DOMAIN updates
            /\ (~typeofNumber(updates.points) \/ updates.points < 0)
    THEN PlainError("Points must be a non-negative number")
    ELSE Null

\* the input validation of PlayersService.updatePlayer: the error it throws, or Null
updatePlayerValidate(updates) ==
    IF "name" \in DOMAIN updates /\ trimLength(updates.name) = 0
    THEN PlainError("Name must be a non-empty string")
    ELSE IF "expertise" \in DOMAIN updates
            /\ updates.expertise \notin {"Beginner", "Intermediate", "Expert"}
    THEN PlainError("Expertise must be Beginner, Intermediate, or Expert")
    ELSE IF "points" \in DOMAIN updates
            /\ (~typeofNumber(updates.points) \/ updates.points < 0)
    THEN PlainError("Points must be a non-negative number")
    ELSE Null

\* PlayersService.updatePlayer after its input validation passed
updatePlayerRequest(resp) ==
    LET r == request(resp) IN
    IF r.ok THEN validateResponse(r.data, isPlayer(r.data)) ELSE r

\* PlayersService.updatePlayer(updates) when the server answers resp: what it
\* returns or throws, and the number of requests it sent
PlayersService_updatePlayer(updates, resp) ==
    LET invalid == updatePlayerValidate(updates)
        r == updatePlayerRequest(resp)
    IN IF invalid # Null THEN [ok |-> FALSE, error |-> invalid, calls |-> 0]
       ELSE IF r.ok THEN [ok |-> TRUE, data |-> r.data, calls |-> 1]
       ELSE [ok |-> FALSE, error |-> r.error, calls |-> 1]

\* the changed fields PlayerProfile.handleSubmit sends
profileUpdates(formData, player) ==
    LET fields == {f \in {"name", "expertise"} : formData[f] # player[f]}
    IN [f \in fields |-> formData[f]]

\* PlayerProfile catch block
profileSubmitError(error) ==
    IF instanceofError(error)
    THEN IF includes(error.message, "validation") \/ includes(error.message, "required")
         THEN [type |-> "validation", message |-> error.message, retryable |-> FALSE]
         ELSE IF includes(error.message, "Network error")
         THEN [type |-> "network",
               message |-> "Network error. Please check your connection and try again.",
               retryable |-> TRUE]
         ELSE [type |-> "server", message |-> "Failed to update profile. Please try again.",
               retryable |-> TRUE]
    ELSE [type |-> "unknown", message |-> "An unexpected error occurred. Please try again.",
          retryable |-> TRUE]

\* App.handleUpdateProfile catch block
handleUpdateProfileCatch(s, err) ==
    setError(s, [type |-> "server",
                 message |-> <<"Failed to update profile: ", errorMessage(err)>>,
                 retryable |-> TRUE])

ProfileFormData ==
    [name : {"Ann", "Zed"}, expertise : {"Novice", "Intermediate", "Expert"}]

profileFrame == <<initPc, placesData, challengesData, playerData, playerResponse,
                  joiningChallenges, joinError, listJoinCalls, appJoinCalls,
                  appRefreshCalls, createNetCalls, classified, fetchCalls>>

\* "Save" in the profile form
ProfileSubmit ==
    /\ state.currentPlayer # Null
    /\ profileCalls = 0
    /\ Outstanding < MaxInFlight
    /\ \E formData \in ProfileFormData :
          LET updates == profileUpdates(formData, state.currentPlayer)
              invalid == updatePlayerValidate(updates)
          IN /\ validatePlayerProfile(formData) = {}
             /\ DOMAIN updates # {}
             /\ IF invalid # Null
                THEN /\ UNCHANGED profileCalls
                     /\ last' = [op |-> "ProfileSubmit", sent |-> FALSE, error |-> invalid,
                                 submitError |-> profileSubmitError(invalid)]
                ELSE /\ profileCalls' = profileCalls + 1
                     /\ last' = [op |-> "ProfileSubmit", sent |-> TRUE]
    /\ UNCHANGED <<state, appUpdateCalls>>
    /\ UNCHANGED profileFrame

\* the update request of PlayerProfile settles; on success the store is
\* updated and onUpdateProfile, which is App.handleUpdateProfile, runs up to
\* its first await
ProfileSettle ==
    /\ profileCalls > 0
    /\ \E resp \in Responses(PlayerBodies) :
          LET r == updatePlayerRequest(resp) IN
          /\ profileCalls' = profileCalls - 1
          /\ IF r.ok
             THEN LET s1 == updatePlayer(state, r.data)
                      invalid == updatePlayerValidate(r.data)
                  IN IF invalid # Null
                     THEN /\ state' = handleUpdateProfileCatch(setLoading(s1, TRUE), invalid)
                          /\ UNCHANGED appUpdateCalls
                          /\ last' = [op |-> "ProfileSettle", ok |-> TRUE,
                                      sent |-> FALSE, error |-> invalid]
                     ELSE /\ state' = setLoading(s1, TRUE)
                          /\ appUpdateCalls' = appUpdateCalls + 1
                          /\ last' = [op |-> "ProfileSettle", ok |-> TRUE, sent |-> TRUE]
             ELSE /\ UNCHANGED <<state, appUpdateCalls>>
                  /\ last' = [op |-> "ProfileSettle", ok |-> FALSE, error |-> r.error,
                              submitError |-> profileSubmitError(r.error)]
    /\ UNCHANGED profileFrame

\* the update request of App.handleUpdateProfile settles
AppUpdateSettle ==
    /\ appUpdateCalls > 0
    /\ \E resp \in Responses(PlayerBodies) :
          LET r == updatePlayerRequest(resp) IN
          /\ appUpdateCalls' = appUpdateCalls - 1
          /\ IF r.ok
             THEN /\ state' = setCurrentPlayer(state, r.data)
                  /\ last' = [op |-> "AppUpdateSettle", ok |-> TRUE]
             ELSE /\ state' = handleUpdateProfileCatch(state, r.error)
                  /\ last' = [op |-> "AppUpdateSettle", ok |-> FALSE, error |-> r.error]
    /\ UNCHANGED profileCalls
    /\ UNCHANGED profileFrame

(***************************************************************************)
(* Creating: ChallengeForm.handleSubmit and App.handleChallengeFormSubmit  *)
(***************************************************************************)
DateOk(date) == date \in {"2026-11-05"}

validateChallengeForm(data) ==
    {f \in {"name", "date", "time"} :
        \/ f = "name" /\ (trimLength(data.name) < 3 \/ trimLength(data.name) > 50)
        \/ f = "date" /\ ~DateOk(data.date)
        \/ f = "time" /\ data.time = ""}

\* the owner id left unchecked
createChallengeValidate_NoOwnerCheck(challenge) ==
    IF "name" \notin DOMAIN challenge \/ challenge.name = ""
    THEN PlainError("Challenge name is required and must be a string")
    ELSE IF "placeId" \notin DOMAIN challenge \/ challenge.placeId = ""
    THEN PlainError("Place ID is required and must be a string")
    ELSE IF "date" \notin DOMAIN challenge \/ challenge.date = ""
    THEN PlainError("Date is required and must be a string")
    ELSE IF "time" \notin DOMAIN challenge
            \/ challenge.time \notin {"MORNING", "AFTERNOON", "EVENING", "NIGHT"}
    THEN PlainError("Time is required and must be MORNING, AFTERNOON, or EVENING")
    ELSE Null

\* the input validation of ChallengesService.createChallenge: the error it
\* throws, or Null
createChallengeValidate(challenge) ==
    IF "name" \notin DOMAIN challenge \/ challenge.name = ""
    THEN PlainError("Challenge name is required and must be a string")
    ELSE IF "placeId" \notin DOMAIN challenge \/ challenge.placeId = ""
    THEN PlainError("Place ID is required and must be a string")
    ELSE IF "date" \notin DOMAIN challenge \/ challenge.date = ""
    THEN PlainError("Date is required and must be a string")
    ELSE IF "time" \notin DOMAIN challenge
            \/ challenge.time \notin {"MORNING", "AFTERNOON", "EVENING", "NIGHT"}
    THEN PlainError("Time is required and must be MORNING, AFTERNOON, or EVENING")
    ELSE IF "ownerId" \notin DOMAIN challenge \/ challenge.ownerId = ""
    THEN PlainError("Owner ID is required and must be a string")
    ELSE Null

\* ChallengesService.createChallenge after its input validation passed
createChallengeRequest(resp) ==
    LET r == request(resp)
        v == IF r.ok THEN validateResponse(r.data, isChallenge(r.data)) ELSE r
    IN IF v.ok THEN [ok |-> TRUE, data |-> normalizeChallenge(v.data)] ELSE v

\* ChallengesService.createChallenge(challenge) when the server answers resp:
\* what it returns or throws, and the number of requests it sent
ChallengesService_createChallenge(challenge, resp) ==
    LET invalid == createChallengeValidate(challenge)
        r == createChallengeRequest(resp)
    IN IF invalid # Null THEN [ok |-> FALSE, error |-> invalid, calls |-> 0]
       ELSE IF r.ok THEN [ok |-> TRUE, data |-> r.data, calls |-> 1]
       ELSE [ok |-> FALSE, error |-> r.error, calls |-> 1]

\* the request ChallengeForm.handleSubmit builds
challengeRequest(formData, place) ==
    [name |-> formData.name, placeId |-> place.id, date |-> formData.date,
     time |-> formData.time]

\* ChallengeForm catch block
createSubmitError(error) ==
    IF instanceofError(error)
    THEN IF includes(error.message, "validation") \/ includes(error.message, "required")
         THEN [type |-> "validation", message |-> error.message, retryable |-> FALSE]
         ELSE IF includes(error.message, "Network error")
         THEN [type |-> "network",
               message |-> "Network error. Please check your connection and try again.",
               retryable |-> TRUE]
         ELSE [type |-> "server", message |-> "Failed to create challenge. Please try again.",
               retryable |-> TRUE]
    ELSE [type |-> "unknown", message |-> "An unexpected error occurred. Please try again.",
          retryable |-> TRUE]

ChallengeFormData ==
    [name : {"", "Cup"}, date : {"", "2026-11-05"}, time : {"", "Morning", "Evening"}]

\* "Create Challenge" in the form opened for a place of the store
CreateSubmit ==
    /\ \E i \in DOMAIN state.places, formData \in ChallengeFormData :
          LET req == challengeRequest(formData, state.places[i])
              invalid == createChallengeValidate(req)
          IN IF validateChallengeForm(formData) # {}
             THEN /\ UNCHANGED createNetCalls
                  /\ last' = [op |-> "CreateSubmit", formValid |-> FALSE]
             ELSE IF invalid # Null
             THEN /\ UNCHANGED createNetCalls
                  /\ last' = [op |-> "CreateSubmit", formValid |-> TRUE, name |-> req.name,
                              sent |-> FALSE, submitError |-> createSubmitError(invalid)]
             ELSE /\ createNetCalls' = createNetCalls + 1
                  /\ last' = [op |-> "CreateSubmit", formValid |-> TRUE, name |-> req.name,
                              sent |-> TRUE]
    /\ UNCHANGED <<state, initPc, placesData, challengesData, playerData, playerResponse,
                   joiningChallenges, joinError, listJoinCalls, appJoinCalls,
                   appRefreshCalls, profileCalls, appUpdateCalls, classified, fetchCalls>>

(***************************************************************************)
(* Specification                                                           *)
(***************************************************************************)
Init ==
    /\ state = initialState
    /\ initPc = "idle"
    /\ placesData = pending
    /\ challengesData = pending
    /\ playerData = pending
    /\ joiningChallenges = {}
    /\ joinError = Null
    /\ listJoinCalls = [id \in ChallengeIds |-> 0]
    /\ appJoinCalls = [id \in ChallengeIds |-> 0]
    /\ appRefreshCalls = [id \in ChallengeIds |-> 0]
    /\ profileCalls = 0
    /\ appUpdateCalls = 0
    /\ createNetCalls = 0
    /\ classified = Null
    /\ playerResponse = pending
    /\ fetchCalls = [createChallenge |-> 0, updatePlayer |-> 0, request |-> 0,
                     getChallengesByStatus |-> 0]
    /\ last = [op |-> "init"]

Next ==
    \/ InitializeApp
    \/ PlacesSettle
    \/ ChallengesSettle
    \/ PlayerSettle
    \/ \E id \in ChallengeIds : ListJoinClick(id)
    \/ \E id \in ChallengeIds : ListJoinIgnored(id)
    \/ \E id \in ChallengeIds : ListJoinSettle(id)
    \/ \E id \in ChallengeIds : AppJoinSettle(id)
    \/ \E id \in ChallengeIds : AppRefreshSettle(id)
    \/ ProfileSubmit
    \/ ProfileSettle
    \/ AppUpdateSettle
    \/ CreateSubmit

Spec == Init /\ [][Next]_vars

(***************************************************************************)
(* The error classifier on its own: any thrown value is classified         *)
(***************************************************************************)
ThrownValues ==
    {ApiServiceError(status, "message") : status \in 0..MaxStatus}
        \cup {PlainError("message"), NotAnError}

Classify ==
    /\ \E error \in ThrownValues :
          classified' = [error |-> error, result |-> handleError(error)]
    /\ UNCHANGED <<state, initPc, placesData, challengesData, playerData,
                   joiningChallenges, joinError, listJoinCalls, appJoinCalls,
                   appRefreshCalls, profileCalls, appUpdateCalls, createNetCalls,
                   playerResponse, fetchCalls, last>>

NextClassifier == Classify

SpecClassifier == Init /\ [][NextClassifier]_vars

(***************************************************************************)
(* The store on its own: any sequence of transitions from initialState     *)
(***************************************************************************)
StorePlayer == normalizePlayer(Me)

StoreErrors ==
    {Null, [type |-> "server", message |-> "Server error occurred.", retryable |-> TRUE]}

StoreChallenges == {normalizeChallenge(Ch1), normalizeChallenge(Ch2)}

StoreChallengeLists == {<< >>, <<normalizeChallenge(Ch1), normalizeChallenge(Ch2)>>}

storeFrame == <<initPc, placesData, challengesData, playerData, joiningChallenges,
                joinError, listJoinCalls, appJoinCalls, appRefreshCalls, profileCalls,
                appUpdateCalls, createNetCalls, classified, playerResponse, fetchCalls>>

\* dispatch(action) on the store; last records the action, what the state
\* held before it and whether it follows replace-challenges([])
Dispatch(action) ==
    /\ state' = appReducer(state, action)
    /\ last' = [op |-> action.type, busy |-> state.loading, failed |-> state.error # Null,
                payload |-> action.payload,
                follows |-> IF last.op = "SET_CHALLENGES" /\ last.payload = << >>
                            THEN "SET_CHALLENGES([])" ELSE "other"]
    /\ UNCHANGED storeFrame

DispatchSetPlaces ==
    \E places \in {<< >>, <<PlaceA>>} : Dispatch([type |-> "SET_PLACES", payload |-> places])

DispatchSetChallenges ==
    \E challenges \in StoreChallengeLists :
        Dispatch([type |-> "SET_CHALLENGES", payload |-> challenges])

DispatchSetCurrentPlayer ==
    Dispatch([type |-> "SET_CURRENT_PLAYER", payload |-> StorePlayer])

DispatchAddChallenge ==
    /\ Len(state.challenges) < MaxChallenges
    /\ \E challenge \in StoreChallenges :
          Dispatch([type |-> "ADD_CHALLENGE", payload |-> challenge])

\* the number of participants the challenges of s hold
Participants(s) ==
    LET Sum[n \in 0..Len(s.challenges)] ==
            IF n = 0 THEN 0 ELSE Len(s.challenges[n].players) + Sum[n - 1]
    IN Sum[Len(s.challenges)]

DispatchJoinChallenge ==
    \E id \in {"c1", "c2", "c9"} :
        /\ (\E i \in DOMAIN state.challenges : state.challenges[i].id = id) =>
              Participants(state) < MaxPlayers
        /\ Dispatch([type |-> "JOIN_CHALLENGE",
                     payload |-> [challengeId |-> id, player |-> StorePlayer]])

DispatchUpdatePlayer ==
    Dispatch([type |-> "UPDATE_PLAYER", payload |-> [StorePlayer EXCEPT !.name = "Zed"]])

DispatchSetLoading ==
    \E loading \in BOOLEAN : Dispatch([type |-> "SET_LOADING", payload |-> loading])

DispatchSetError ==
    \E error \in StoreErrors : Dispatch([type |-> "SET_ERROR", payload |-> error])

\* useNavigation.setCurrentSection
Navigate ==
    /\ \E section \in Sections :
          /\ state' = setCurrentSection(state, section)
          /\ last' = [op |-> "SET_NAVIGATION", busy |-> state.loading,
                      failed |-> state.error # Null, payload |-> section]
    /\ UNCHANGED storeFrame

\* useNavigation.goBack
GoBack ==
    /\ state' = goBack(state)
    /\ last' = [op |-> "goBack", busy |-> state.loading, failed |-> state.error # Null,
                recorded |-> state.navigation.previousSection]
    /\ UNCHANGED storeFrame

NextStore ==
    \/ DispatchSetPlaces
    \/ DispatchSetChallenges
    \/ DispatchSetCurrentPlayer
    \/ DispatchAddChallenge
    \/ DispatchJoinChallenge
    \/ DispatchUpdatePlayer
    \/ DispatchSetLoading
    \/ DispatchSetError
    \/ Navigate
    \/ GoBack

SpecStore == Init /\ [][NextStore]_vars

(***************************************************************************)
(* The gateways on their own: a method called with any request             *)
(***************************************************************************)
\* a field of a request is left out or takes one of these values
CreateChallengeFields == {"name", "placeId", "date", "time", "ownerId"}

CreateChallengeChoices ==
    [name : {"absent", "", "Cup"}, placeId : {"absent", "", "p1"},
     date : {"absent", "", "2024-01-15"},
     time : {"absent", "", "Morning", "MORNING", "NIGHT"},
     ownerId : {"absent", "", "player2"}]

CreateChallengeRequests ==
    {[f \in {g \in CreateChallengeFields : c[g] # "absent"} |-> c[f]] :
        c \in CreateChallengeChoices}

UpdatePlayerFields == {"name", "expertise", "points"}

\* the values of points: numbers and a value that is not a number
PointsValues == <<-10, 0, 150, "invalid">>

UpdatePlayerChoices ==
    [name : {"absent", "", "   ", "Ann"},
     expertise : {"absent", "Beginner", "Intermediate", "Expert", "EXPERT", "Novice"},
     points : 0..Len(PointsValues)]

\* the request that supplies the fields chosen in c
UpdatePlayerRequest(c) ==
    [f \in {g \in UpdatePlayerFields :
                IF g = "points" THEN c.points # 0 ELSE c[g] # "absent"} |->
        IF f = "points" THEN PointsValues[c.points] ELSE c[f]]

gatewayFrame == <<state, initPc, placesData, challengesData, playerData,
                  joiningChallenges, joinError, listJoinCalls, appJoinCalls,
                  appRefreshCalls, profileCalls, appUpdateCalls, createNetCalls,
                  classified, playerResponse>>

\* the server answers only a request that was sent
NoResponse == [net |-> "none"]

\* the requests sent so far by the gateway methods called on their own
TotalFetchCalls ==
    fetchCalls.createChallenge + fetchCalls.updatePlayer + fetchCalls.request
        + fetchCalls.getChallengesByStatus

\* ChallengesService.createChallenge(challenge)
CreateChallengeCall ==
    /\ TotalFetchCalls < MaxGatewayCalls
    /\ \E challenge \in CreateChallengeRequests :
       \E resp \in IF createChallengeValidate(challenge) = Null
                   THEN Responses(ChallengeBodies) ELSE {NoResponse} :
          LET out == ChallengesService_createChallenge(challenge, resp) IN
          /\ fetchCalls' = [fetchCalls EXCEPT !.createChallenge = @ + out.calls]
          /\ last' = [op |-> "createChallenge", challenge |-> challenge, out |-> out]
    /\ UNCHANGED gatewayFrame

\* PlayersService.updatePlayer(updates)
UpdatePlayerCall ==
    /\ TotalFetchCalls < MaxGatewayCalls
    /\ \E c \in UpdatePlayerChoices :
       \E resp \in IF updatePlayerValidate(UpdatePlayerRequest(c)) = Null
                   THEN Responses(PlayerBodies) ELSE {NoResponse} :
          LET updates == UpdatePlayerRequest(c)
              out == PlayersService_updatePlayer(updates, resp) IN
          /\ fetchCalls' = [fetchCalls EXCEPT !.updatePlayer = @ + out.calls]
          /\ last' = [op |-> "updatePlayer", updates |-> updates, out |-> out]
    /\ UNCHANGED gatewayFrame

\* ChallengesService.getChallengesByStatus(status) when the server answers
\* resp: what it returns or throws, and the number of requests it sent
ChallengesService_getChallengesByStatus(status, resp) ==
    LET r == getChallenges(resp)
    IN IF r.ok THEN [ok |-> TRUE, data |-> r.data, calls |-> 1]
       ELSE [ok |-> FALSE, error |-> r.error, calls |-> 1]

StatusArguments == {"Open", "Closed", "Completed", "OPEN", "CLOSED", "Invalid"}

\* ChallengesService.getChallengesByStatus(status)
GetChallengesByStatusCall ==
    /\ TotalFetchCalls < MaxGatewayCalls
    /\ \E status \in StatusArguments, resp \in Responses(ChallengesBodies) :
          LET out == ChallengesService_getChallengesByStatus(status, resp) IN
          /\ fetchCalls' = [fetchCalls EXCEPT !.getChallengesByStatus = @ + out.calls]
          /\ last' = [op |-> "getChallengesByStatus", status |-> status, resp |-> resp,
                      out |-> out]
    /\ UNCHANGED gatewayFrame

\* wire values of the expertise field, recognized or not
WireExpertise ==
    {"BEGINNER", "Beginner", "beginner", "INTERMEDIATE", "Intermediate", "EXPERT", "Expert",
     "expert", "Novice", "NOVICE", ""}

\* wire values of the time-slot field, recognized or not
WireTimeSlots ==
    {"MORNING", "Morning", "morning", "AFTERNOON", "Afternoon", "EVENING", "Evening",
     "evening", "NIGHT", "Night", ""}

\* challenges as the server sends them
WireChallenges ==
    {Ch1, Ch1Joined, Ch2, Ch3, [Ch1Joined EXCEPT !.time = "AFTERNOON", !.owner = Me]}

\* normalizeExpertise(x), and the normalizer applied again to its result
NormalizeExpertiseCall ==
    /\ \E x \in WireExpertise :
          last' = [op |-> "normalizeExpertise", value |-> x, once |-> normalizeExpertise(x),
                   twice |-> normalizeExpertise(normalizeExpertise(x))]
    /\ UNCHANGED fetchCalls
    /\ UNCHANGED gatewayFrame

\* normalizeTimeSlot(x), and the normalizer applied again to its result
NormalizeTimeSlotCall ==
    /\ \E x \in WireTimeSlots :
          last' = [op |-> "normalizeTimeSlot", value |-> x, once |-> normalizeTimeSlot(x),
                   twice |-> normalizeTimeSlot(normalizeTimeSlot(x))]
    /\ UNCHANGED fetchCalls
    /\ UNCHANGED gatewayFrame

\* validateResponse(data, isChallenge) followed by normalizeChallenge, and
\* the normalizer applied again to its result
NormalizeChallengeCall ==
    /\ \E x \in WireChallenges :
          last' = [op |-> "normalizeChallenge", value |-> x, valid |-> isChallenge(x),
                   once |-> normalizeChallenge(x),
                   twice |-> normalizeChallenge(normalizeChallenge(x))]
    /\ UNCHANGED fetchCalls
    /\ UNCHANGED gatewayFrame

\* what fetch() can produce for a request: no connection, a non-2xx or a
\* 2xx response, the body of a response being JSON or not
RequestResponses ==
    {[net |-> "unreachable", message |-> "Failed to fetch"]}
        \cup {[net |-> "http", status |-> st.status, statusText |-> st.statusText,
               parse |-> b.parse, body |-> b.body] :
                  st \in {[status |-> 404, statusText |-> "Not Found"],
                          [status |-> 500, statusText |-> "Internal Server Error"]},
                  b \in {[parse |-> TRUE, body |-> [message |-> "Challenge not found"]],
                         [parse |-> TRUE, body |-> [code |-> "E1"]],
                         [parse |-> FALSE, body |-> [text |-> "<html>"]]}}
        \cup {[net |-> "ok", status |-> 200, parse |-> b.parse, body |-> b.body] :
                  b \in {[parse |-> TRUE, body |-> Me],
                         [parse |-> TRUE, body |-> Malformed],
                         [parse |-> FALSE, body |-> [text |-> "<html>"]]}}

\* BaseApiService.request(endpoint) when fetch() produces resp
RequestCall ==
    /\ TotalFetchCalls < MaxGatewayCalls
    /\ \E resp \in RequestResponses :
          /\ fetchCalls' = [fetchCalls EXCEPT !.request = @ + 1]
          /\ last' = [op |-> "request", resp |-> resp, out |-> request(resp)]
    /\ UNCHANGED gatewayFrame

NextGateway ==
    \/ CreateChallengeCall
    \/ UpdatePlayerCall
    \/ RequestCall
    \/ GetChallengesByStatusCall
    \/ NormalizeExpertiseCall
    \/ NormalizeTimeSlotCall
    \/ NormalizeChallengeCall

SpecGateway == Init /\ [][NextGateway]_vars

(***************************************************************************)
(* Properties                                                              *)
(***************************************************************************)
InitSettleOps == {"PlacesSettle", "ChallengesSettle", "PlayerSettle"}

\* the step that resumed initializeApp after its three reads settled
StartupJustSettled == last.op \in InitSettleOps /\ last.done

\* C1: when startup has settled, a fulfilled venues or challenges read is in
\* the store as fetched and a rejected one as the empty collection, a
\* fulfilled profile read is the active profile, loading is false and error
\* is null; one rejection does not void the other results.
C1_PartialFailureCommit ==
    StartupJustSettled =>
        /\ state.loading = FALSE
        /\ state.error = Null
        /\ state.places = IF last.placesData.status = "fulfilled"
                          THEN last.placesData.value ELSE << >>
        /\ state.challenges = IF last.challengesData.status = "fulfilled"
                              THEN last.challengesData.value ELSE << >>
        /\ (last.playerData.status = "fulfilled" =>
                state.currentPlayer = last.playerData.value)

C1_Witness ==
    /\ StartupJustSettled
    /\ last.placesData.status = "rejected"
    /\ last.challengesData.status = "fulfilled"
    /\ last.playerData.status = "fulfilled"
    /\ state.places = << >>
    /\ state.challenges # << >>
    /\ state.currentPlayer # Null
    /\ ~state.loading
    /\ state.error = Null

\* C2: while the three startup reads are outstanding (issued and not all
\* settled) the loading flag is true.
C2_LoadingWhileStartupPending ==
    initPc = "waiting" => state.loading = TRUE

ProfileReadFailed(resp) ==
    \/ resp.net \in {"unreachable", "http"}
    \/ resp.net = "ok" /\ (~resp.parse \/ ~isPlayer(resp.body))

\* C3: when the startup profile read failed (no connection, an HTTP error
\* status or a malformed payload), the active profile is null and no error is
\* recorded once startup has settled.
C3_FailedProfileReadLeavesUnset ==
    (StartupJustSettled /\ ProfileReadFailed(last.playerResponse)) =>
        /\ state.currentPlayer = Null
        /\ state.error = Null

\* C4: at any time at most one join network call is outstanding for one
\* challenge id: a join requested while an earlier join of the same id has
\* not settled is ignored.
C4_OneJoinCallPerChallenge ==
    \A id \in ChallengeIds : listJoinCalls[id] + appJoinCalls[id] <= 1

\* C5: a successful join write in the orchestrator leaves the challenge
\* collection as it was and issues the open-challenges read; when that read
\* succeeds the collection is exactly the list it returned.
C5_JoinReconcilesByRefetch ==
    [][/\ (last'.op = "AppJoinSettle" /\ last'.ok) =>
              /\ state'.challenges = state.challenges
              /\ appRefreshCalls'[last'.id] = appRefreshCalls[last'.id] + 1
       /\ (last'.op = "AppRefreshSettle" /\ last'.ok) =>
              state'.challenges = last'.value]_vars

C5_Witness ==
    /\ last.op = "AppRefreshSettle"
    /\ last.ok
    /\ last.value = <<Ch1Joined, Ch2>>
    /\ state.challenges = <<Ch1Joined, Ch2>>

JoinFlowOps == {"ListJoinClick", "ListJoinIgnored", "ListJoinSettle", "AppJoinSettle",
                "AppRefreshSettle"}

\* C7: every step of a join flow other than the commit of a successful
\* refresh, in particular a failed join write and a failed refresh, leaves the
\* venues, the challenges, the active profile and the navigation position of
\* the store as they were.
C7_FailedJoinKeepsCollections ==
    [][(last'.op \in JoinFlowOps /\ ~(last'.op = "AppRefreshSettle" /\ last'.ok)) =>
          /\ state'.places = state.places
          /\ state'.challenges = state.challenges
          /\ state'.currentPlayer = state.currentPlayer
          /\ state'.navigation = state.navigation]_vars

C7_Witness ==
    /\ last.op \in {"AppJoinSettle", "AppRefreshSettle"}
    /\ ~last.ok
    /\ state.error # Null
    /\ state.challenges # << >>
    /\ state.places # << >>

\* C8: an error record surfaced after a remote failure of a join or of a
\* profile update has the type and the retryable flag the error classifier
\* gives to that failure.
C8_SurfacedErrorsClassified ==
    /\ (last.op \in {"AppJoinSettle", "AppRefreshSettle", "AppUpdateSettle"} /\ ~last.ok) =>
          /\ state.error.type = handleError(last.error).type
          /\ state.error.retryable = handleError(last.error).retryable
    /\ (last.op = "ListJoinSettle" /\ ~last.ok) =>
          /\ joinError.type = handleError(last.error).type
          /\ joinError.retryable = handleError(last.error).retryable

ClassifierKind(error) ==
    IF error.kind # "ApiServiceError" THEN "unknown"
    ELSE IF error.status = 0 THEN "network"
    ELSE IF error.status >= 400 /\ error.status <= 499 THEN "validation"
    ELSE IF error.status >= 500 /\ error.status <= 599 THEN "server"
    ELSE "unknown"

\* C9: the classifier maps status 0 to network, 400..499 to validation,
\* 500..599 to server, every other status and every value that is not an HTTP
\* failure to unknown, and retryable is false exactly for validation.
C9_ClassifierTable ==
    classified # Null =>
        /\ classified.result.type = ClassifierKind(classified.error)
        /\ classified.result.retryable = (classified.result.type # "validation")

ClearingTransitions ==
    {"SET_PLACES", "SET_CHALLENGES", "SET_CURRENT_PLAYER", "ADD_CHALLENGE",
     "JOIN_CHALLENGE", "UPDATE_PLAYER"}

\* C10: after replace-venues, replace-challenges, set-active-profile,
\* append-challenge, record-join or update-active-profile, whatever the state
\* before, loading is false and error is null.
C10_TransitionsClearBusyAndError ==
    last.op \in ClearingTransitions => (state.loading = FALSE /\ state.error = Null)

C10_Witness ==
    /\ last.op = "ADD_CHALLENGE"
    /\ last.busy
    /\ last.failed
    /\ ~state.loading
    /\ state.error = Null

ErrorWritingTransitions == ClearingTransitions \cup {"SET_ERROR", "SET_NAVIGATION"}

\* C11 as stated: set-loading(b) changes nothing but loading, and every other
\* transition, navigate included, applied to a state holding an error leaves
\* a state that no longer holds that error unless the transition itself,
\* set-error, writes it.
C11_OnlySetLoadingKeepsError ==
    [][/\ last'.op = "SET_LOADING" => state' = [state EXCEPT !.loading = last'.payload]
       /\ (last'.op \in ErrorWritingTransitions /\ state.error # Null) =>
              state'.error = IF last'.op = "SET_ERROR" THEN last'.payload ELSE Null]_vars

\* C11 amended: set-loading(b) and navigate(section) are the two transitions
\* that leave the error slot as it was, set-loading changing nothing but
\* loading and navigate nothing but the navigation position; the six data
\* transitions leave a null error and set-error(e) leaves e.
C11_SetLoadingAndNavigateKeepError ==
    [][/\ last'.op = "SET_LOADING" => state' = [state EXCEPT !.loading = last'.payload]
       /\ last'.op = "SET_NAVIGATION" =>
              state' = [state EXCEPT !.navigation = state'.navigation]
       /\ last'.op \in ClearingTransitions => state'.error = Null
       /\ last'.op = "SET_ERROR" => state'.error = last'.payload]_vars

C11_Witness ==
    /\ last.op = "SET_NAVIGATION"
    /\ last.failed
    /\ state.error # Null
    /\ state.navigation.currentSection = "profile"

NoChallengeHasId(s, id) == \A i \in DOMAIN s.challenges : s.challenges[i].id # id

\* C12 as stated: record-join with an id no challenge of the store has
\* returns a state equal to the input state in every field, loading and
\* error included.
C12_UnmatchedJoinChangesNothing ==
    [][(last'.op = "JOIN_CHALLENGE"
            /\ NoChallengeHasId(state, last'.payload.challengeId)) =>
          state' = state]_vars

\* C12 amended: record-join with an id no challenge of the store has leaves
\* venues, challenges, active profile and navigation as they were, and
\* leaves loading false and error null.
C12_UnmatchedJoinKeepsData ==
    [][(last'.op = "JOIN_CHALLENGE"
            /\ NoChallengeHasId(state, last'.payload.challengeId)) =>
          state' = [state EXCEPT !.loading = FALSE, !.error = Null]]_vars

C12_Witness ==
    /\ last.op = "JOIN_CHALLENGE"
    /\ last.payload.challengeId = "c9"
    /\ last.busy
    /\ last.failed
    /\ Len(state.challenges) = 2
    /\ ~state.loading
    /\ state.error = Null

\* C13: record-join(id, profile) on a state holding a challenge with that id
\* leaves that challenge with its old participant sequence followed by
\* profile, also when a profile with the same id was already in it, and
\* leaves the order and number of challenges, every other challenge, the
\* venues, the active profile and the navigation position as they were.
C13_JoinAppendsParticipant ==
    [][(last'.op = "JOIN_CHALLENGE"
            /\ ~NoChallengeHasId(state, last'.payload.challengeId)) =>
          /\ DOMAIN state'.challenges = DOMAIN state.challenges
          /\ \A i \in DOMAIN state.challenges :
                state'.challenges[i] =
                    IF state.challenges[i].id = last'.payload.challengeId
                    THEN [state.challenges[i] EXCEPT
                             !.players = Append(@, last'.payload.player)]
                    ELSE state.challenges[i]
          /\ state'.places = state.places
          /\ state'.currentPlayer = state.currentPlayer
          /\ state'.navigation = state.navigation]_vars

C13_Witness ==
    /\ last.op = "JOIN_CHALLENGE"
    /\ Len(state.challenges) = 2
    /\ state.challenges[1].id = last.payload.challengeId
    /\ state.challenges[1].players = <<last.payload.player, last.payload.player>>
    /\ state.challenges[2].id # last.payload.challengeId
    /\ state.challenges[2].players = << >>

\* C14: append-challenge(c) leaves the previous challenge collection followed
\* by c; applied right after replace-challenges([]) it leaves exactly [c].
C14_AppendAfterReplace ==
    [][last'.op = "ADD_CHALLENGE" =>
          /\ state'.challenges = Append(state.challenges, last'.payload)
          /\ last'.follows = "SET_CHALLENGES([])" =>
                 state'.challenges = <<last'.payload>>]_vars

C14_Witness ==
    /\ last.op = "ADD_CHALLENGE"
    /\ last.follows = "SET_CHALLENGES([])"
    /\ state.currentPlayer # Null
    /\ state.challenges = <<last.payload>>

\* C15: after navigate(section) the current section is section and the
\* previous section is the one that was current just before, whatever was
\* recorded earlier; venues, challenges and active profile are unchanged.
C15_NavigateSingleLevelHistory ==
    [][last'.op = "SET_NAVIGATION" =>
          /\ state'.navigation.currentSection = last'.payload
          /\ state'.navigation.previousSection = state.navigation.currentSection
          /\ state'.places = state.places
          /\ state'.challenges = state.challenges
          /\ state'.currentPlayer = state.currentPlayer]_vars

C15_Witness ==
    /\ last.op = "SET_NAVIGATION"
    /\ last.payload = "challenges"
    /\ state.navigation = [currentSection |-> "challenges", previousSection |-> "places"]
    /\ state.challenges # << >>

\* C16: goBack with a previous section p recorded makes p current and clears
\* the previous section, changing nothing else; with none recorded it
\* changes nothing; a goBack that follows a goBack changes nothing.
C16_GoBackOneStep ==
    [][last'.op = "goBack" =>
          /\ state' = IF state.navigation.previousSection # "undefined"
                      THEN [state EXCEPT !.navigation =
                               [currentSection |-> state.navigation.previousSection,
                                previousSection |-> "undefined"]]
                      ELSE state
          /\ last.op = "goBack" => state' = state]_vars

\* goBack ran with nothing recorded on a section other than the initial one:
\* an earlier goBack had moved there and cleared the record
C16_Witness ==
    /\ last.op = "goBack"
    /\ last.recorded = "undefined"
    /\ state.navigation = [currentSection |-> "places", previousSection |-> "undefined"]

CanonicalExpertise == {"Beginner", "Intermediate", "Expert"}

CanonicalTimeSlots == {"MORNING", "AFTERNOON", "EVENING", "NIGHT"}

\* C17: every profile the store holds (the active profile, the owner and
\* the participants of every challenge) has a canonical expertise tier and
\* every challenge a canonical time slot.
C17_StoreHoldsCanonicalValues ==
    /\ state.currentPlayer # Null => state.currentPlayer.expertise \in CanonicalExpertise
    /\ \A i \in DOMAIN state.challenges :
          /\ state.challenges[i].time \in CanonicalTimeSlots
          /\ state.challenges[i].owner.expertise \in CanonicalExpertise
          /\ \A k \in DOMAIN state.challenges[i].players :
                state.challenges[i].players[k].expertise \in CanonicalExpertise

MissingOrEmpty(r, f) == f \notin DOMAIN r \/ r[f] = ""

C19_ValidFormSendsOneCreate ==
    [][(last'.op = "CreateSubmit" /\ last'.formValid) =>
          /\ last'.sent
          /\ createNetCalls' = createNetCalls + 1]_vars

UpdateFieldInvalid(u) ==
    \/ "name" \in DOMAIN u /\ trimLength(u.name) = 0
    \/ "expertise" \in DOMAIN u /\ u.expertise \notin CanonicalExpertise
    \/ "points" \in DOMAIN u /\ (~typeofNumber(u.points) \/ u.points < 0)

InputValidationRaised(l) ==
    \/ l.op = "ProfileSubmit" /\ ~l.sent
    \/ l.op = "ProfileSettle" /\ l.ok /\ ~l.sent
    \/ l.op = "CreateSubmit" /\ l.formValid /\ ~l.sent

\* C21: a step in which a gateway raises an input-validation failure does
\* not write that failure to the error slot of the store: the slot is what
\* it was, or null when the same step committed data.
C21_ValidationFailureStaysLocal ==
    [][InputValidationRaised(last') =>
          (state'.error = state.error \/ state'.error = Null)]_vars

\* C22: request raises an error of status 0 only when the server could not
\* be reached; when a response was received, parseable or not, an error it
\* raises has a non-zero status, and a non-2xx response whose body is not
\* JSON is raised with the status of the response and the fallback message.
C22_StatusZeroOnlyWhenUnreachable ==
    last.op = "request" =>
        /\ (~last.out.ok /\ last.out.error.status = 0) => last.resp.net = "unreachable"
        /\ (last.resp.net = "http" /\ ~last.resp.parse) =>
               last.out = [ok |-> FALSE,
                           error |-> ApiServiceError(last.resp.status,
                                        <<"HTTP ", last.resp.status, ": ",
                                          last.resp.statusText>>)]

NormalizeOps == {"normalizeExpertise", "normalizeTimeSlot", "normalizeChallenge"}

\* the time slots the normalization table maps to themselves
TableTimeSlots == {"MORNING", "AFTERNOON", "EVENING"}

C24_NightPassesThrough ==
    (last.op = "normalizeChallenge" /\ last.value.time = "NIGHT") =>
        /\ last.valid
        /\ last.once.time = "NIGHT"

\* C25: getChallengesByStatus(s) with s outside the accepted statuses throws
\* a plain Error and sends nothing; otherwise, when the list read succeeds,
\* it returns the challenges of the list whose status is s, in list order.
C25_FilterByStatus ==
    last.op = "getChallengesByStatus" =>
        IF last.status \notin {"Open", "Closed", "Completed"}
        THEN /\ ~last.out.ok
             /\ last.out.error.kind = "Error"
             /\ last.out.calls = 0
        ELSE getChallenges(last.resp).ok =>
                /\ last.out.ok
                /\ \A i \in DOMAIN last.out.data : last.out.data[i].status = last.status
                /\ \A c \in {getChallenges(last.resp).data[i] :
                                 i \in DOMAIN getChallenges(last.resp).data} :
                       c.status = last.status =>
                           \E i \in DOMAIN last.out.data : last.out.data[i] = c

\* C26: when a refresh of the challenge collection settles with a list, or
\* the startup load commits, the challenge collection of the store is exactly
\* the list that settlement delivered, whatever other refreshes are still
\* outstanding or settled before it.
C26_LastSettledWins ==
    /\ (last.op = "AppRefreshSettle" /\ last.ok) => state.challenges = last.value
    /\ (last.op \in InitSettleOps /\ last.done) =>
           state.challenges = IF last.challengesData.status = "fulfilled"
                              THEN last.challengesData.value ELSE << >>

C26_Witness ==
    /\ last.op = "AppRefreshSettle"
    /\ last.ok
    /\ \E other \in ChallengeIds \ {last.id} : appRefreshCalls[other] > 0
    /\ state.challenges = last.value
    /\ last.value # << >>

\* C27: a click on the join button sends one join write for the clicked
\* challenge, and no later step of the flow that click started (the list
\* component's continuation, the orchestrator callback it invokes) sends
\* another join write.
C27_OneJoinWritePerClick ==
    [][\A id \in ChallengeIds :
          IF last'.op = "ListJoinClick" /\ last'.id = id
          THEN /\ listJoinCalls'[id] = listJoinCalls[id] + 1
               /\ appJoinCalls'[id] = appJoinCalls[id]
          ELSE /\ listJoinCalls'[id] <= listJoinCalls[id]
               /\ appJoinCalls'[id] <= appJoinCalls[id]]_vars

\* a join write or a profile update sent by the orchestrator is in flight
OrchestratorWriteOutstanding ==
    \/ \E id \in ChallengeIds : appJoinCalls[id] > 0
    \/ appUpdateCalls > 0

\* C28: loading is true while a join write or a profile update of the
\* orchestrator is in flight, and false once the startup load and every
\* request have settled.
C28_LoadingTracksOutstanding ==
    /\ OrchestratorWriteOutstanding => state.loading
    /\ (initPc = "done" /\ Outstanding = 0) => ~state.loading

\* C29: when the join request of the list component settles, with success
\* or with failure, the marker of its challenge is removed, and a challenge
\* with no join request of the list component in flight has no marker (so a
\* later click on it is not ignored).
C29_MarkerRemovedOnSettle ==
    /\ last.op = "ListJoinSettle" => last.id \notin joiningChallenges
    /\ \A id \in ChallengeIds : listJoinCalls[id] = 0 => id \notin joiningChallenges

\* a second click on c1 is accepted while the flow of the first one, whose
\* join request has settled, is still running in the orchestrator
C29_Witness ==
    /\ last.op = "ListJoinClick"
    /\ last.id = "c1"
    /\ "c1" \in joiningChallenges
    /\ appJoinCalls["c1"] > 0

\* the positions of the collection whose participant list a step changed
ParticipantsChanged(before, after) ==
    {i \in DOMAIN before.challenges :
        after.challenges[i].players # before.challenges[i].players}

\* C30: one record-join changes the participant list of at most one
\* challenge of the collection, whatever transitions built the collection.
C30_JoinChangesAtMostOneChallenge ==
    [][last'.op = "JOIN_CHALLENGE" =>
          Cardinality(ParticipantsChanged(state, state')) <= 1]_vars


====
